---- MODULE Spec2Model ----
(***************************************************************************)
(* Model of the wolfi-backend API handlers: the three evaluateAnswer       *)
(* variants (src/pages/api/evaluateAnswer.ts) and the four generateExercise*)
(* variants (src/pages/api/generateExercise.ts and the tail of             *)
(* evaluateAnswer.ts).  One request is followed from its arrival to its    *)
(* response; every await of the handler is one step.                       *)
(*                                                                         *)
(* JavaScript values are records [t, n, s]: t is the typeof-like tag, n a  *)
(* number counted in halves (so 2.5 is n = 5), s a string as a sequence of *)
(* glyphs.  A glyph is an atom standing for a fixed run of characters.     *)
(***************************************************************************)
EXTENDS Integers, Sequences, FiniteSets, TLC

\* ----------------------------------------------------------------- bounds

\* Largest numeric exerciseIndex a request carries, in halves (8 is 4.0).
MaxIndexHalves == 8
\* Smallest numeric exerciseIndex a request carries is -MinIndexHalves halves.
MinIndexHalves == 2

\* ------------------------------------------------------------ JS values

Undef == [t |-> "undefined", n |-> 0, s |-> <<>>]
Null == [t |-> "null", n |-> 0, s |-> <<>>]
Bool(b) == [t |-> "boolean", n |-> IF b THEN 1 ELSE 0, s |-> <<>>]
\* A finite number of h halves.
Num(h) == [t |-> "number", n |-> h, s |-> <<>>]
Whole(i) == Num(2 * i)
NaN == [t |-> "number", n |-> 0, s |-> <<"NaN">>]
PosInf == [t |-> "number", n |-> 0, s |-> <<"Infinity">>]
NegInf == [t |-> "number", n |-> 0, s |-> <<"-Infinity">>]
Str(s) == [t |-> "string", n |-> 0, s |-> s]
\* A plain object {} and an empty array [] (typeof gives "object" for both).
Obj == [t |-> "object", n |-> 0, s |-> <<"{}">>]
Arr == [t |-> "object", n |-> 0, s |-> <<"[]">>]

TypeOf(v) == IF v.t = "null" THEN "object" ELSE v.t

IsFiniteNum(v) == v.t = "number" /\ v.s = <<>>

\* ToBoolean.
Truthy(v) ==
  CASE v.t = "undefined" -> FALSE
    [] v.t = "null" -> FALSE
    [] v.t = "boolean" -> v.n = 1
    [] v.t = "number" -> v # NaN /\ ~(IsFiniteNum(v) /\ v.n = 0)
    [] v.t = "string" -> v.s # <<>>
    [] OTHER -> TRUE

WhiteSpace == {" ", "\n"}
Digits == {"0", "1", "2", "3", "4", "5", "6", "7", "8", "9"}
DigitValue(d) ==
  CASE d = "0" -> 0 [] d = "1" -> 1 [] d = "2" -> 2 [] d = "3" -> 3
    [] d = "4" -> 4 [] d = "5" -> 5 [] d = "6" -> 6 [] d = "7" -> 7
    [] d = "8" -> 8 [] d = "9" -> 9

RECURSIVE TrimStart(_)
TrimStart(s) ==
  IF s # <<>> /\ Head(s) \in WhiteSpace THEN TrimStart(Tail(s)) ELSE s

RECURSIVE TrimEnd(_)
TrimEnd(s) ==
  IF s # <<>> /\ s[Len(s)] \in WhiteSpace
    THEN TrimEnd(SubSeq(s, 1, Len(s) - 1))
    ELSE s

\* String.prototype.trim on a glyph sequence.
Trim(s) == TrimEnd(TrimStart(s))

RECURSIVE DecimalValue(_)
DecimalValue(ds) ==
  IF ds = <<>> THEN 0
  ELSE 10 * DecimalValue(SubSeq(ds, 1, Len(ds) - 1)) + DigitValue(ds[Len(ds)])

AllDigits(ds) == ds # <<>> /\ \A i \in 1..Len(ds) : ds[i] \in Digits

\* ToNumber of a string: blank is 0, digits are their value, digits followed
\* by ".5" are the value plus a half, "-" negates, anything else is NaN.
StringToNumber(s) ==
  LET t == Trim(s)
      neg == t # <<>> /\ Head(t) = "-"
      u == IF neg THEN Tail(t) ELSE t
      sign == IF neg THEN -1 ELSE 1
  IN  IF t = <<>> THEN Num(0)
      ELSE IF AllDigits(u) THEN Num(sign * 2 * DecimalValue(u))
      ELSE IF Len(u) >= 3 /\ AllDigits(SubSeq(u, 1, Len(u) - 2))
                /\ SubSeq(u, Len(u) - 1, Len(u)) = <<".", "5">>
        THEN Num(sign * (2 * DecimalValue(SubSeq(u, 1, Len(u) - 2)) + 1))
      ELSE IF u = <<"Infinity">> THEN (IF neg THEN NegInf ELSE PosInf)
      ELSE NaN

\* ToNumber, as Number(v) and the relational operators apply it.
ToNumber(v) ==
  CASE v.t = "undefined" -> NaN
    [] v.t = "null" -> Num(0)
    [] v.t = "boolean" -> Num(2 * v.n)
    [] v.t = "number" -> v
    [] v.t = "string" -> StringToNumber(v.s)
    [] v = Arr -> Num(0)
    [] OTHER -> NaN

\* v < i and v > i for a whole number i; a NaN operand compares false.
LessThan(v, i) ==
  LET x == ToNumber(v)
  IN  x = NegInf \/ (IsFiniteNum(x) /\ x.n < 2 * i)

GreaterThan(v, i) ==
  LET x == ToNumber(v)
  IN  x = PosInf \/ (IsFiniteNum(x) /\ x.n > 2 * i)

\* Number.isNaN does not coerce its argument.
NumberIsNaN(v) == v = NaN

\* Number.isFinite does not coerce its argument.
NumberIsFinite(v) == IsFiniteNum(v)

MathFloor(v) ==
  LET x == ToNumber(v)
  IN  IF IsFiniteNum(x) THEN Num(2 * (x.n \div 2)) ELSE x

\* Math.round rounds a half up.
MathRound(x) == IF IsFiniteNum(x) THEN Num(2 * ((x.n + 1) \div 2)) ELSE x

MathMin(a, b) == IF a.n <= b.n THEN a ELSE b
MathMax(a, b) == IF a.n >= b.n THEN a ELSE b

\* ------------------------------------------------------- shared helpers

sanitizeExerciseIndex(index) ==
  IF ~Truthy(index) \/ NumberIsNaN(index) THEN Whole(1)
  ELSE IF LessThan(index, 1) THEN Whole(1)
  ELSE IF GreaterThan(index, 3) THEN Whole(3)
  ELSE MathFloor(index)

PracticeResults == {"correct", "partial", "incorrect"}
ALLOWED_RESULTS == {Str(<<r>>) : r \in PracticeResults}

\* getFallbackEvaluation with every value but 2 and 3 given the first record.
getFallbackEvaluationDefaultFirst(exerciseIndex) ==
  IF exerciseIndex = Whole(2)
    THEN [result |-> Str(<<"partial">>), score |-> Whole(60),
          feedbackSummary |-> Str(<<"Quase la. Vale a pena rever alguns passos.">>)]
  ELSE IF exerciseIndex = Whole(3)
    THEN [result |-> Str(<<"incorrect">>), score |-> Whole(20),
          feedbackSummary |-> Str(<<"A tua resolucao ainda precisa de reforco.">>)]
  ELSE [result |-> Str(<<"correct">>), score |-> Whole(100),
        feedbackSummary |-> Str(<<"Bom trabalho! Acertaste este exercicio.">>)]

\* The parameter defaults to 1 when the argument is undefined; the tests
\* are strict equalities.
getFallbackEvaluation(exerciseIndex) ==
  IF exerciseIndex \in {Undef, Whole(1)}
    THEN [result |-> Str(<<"correct">>), score |-> Whole(100),
          feedbackSummary |-> Str(<<"Bom trabalho! Acertaste este exercicio.">>)]
  ELSE IF exerciseIndex = Whole(2)
    THEN [result |-> Str(<<"partial">>), score |-> Whole(60),
          feedbackSummary |-> Str(<<"Quase la. Vale a pena rever alguns passos.">>)]
  ELSE [result |-> Str(<<"incorrect">>), score |-> Whole(20),
        feedbackSummary |-> Str(<<"A tua resolucao ainda precisa de reforco.">>)]

\* --------------------------------------------------- completion output

\* The properties a parsed completion object can carry; Undef is "absent".
NoProps ==
  [result |-> Undef, score |-> Undef, feedbackSummary |-> Undef,
   statement |-> Undef, exerciseType |-> Undef]

\* A completion text is a sequence of tokens.  G(g) is the run of characters
\* g; Fields(f) is the run of characters between the braces of an object
\* literal whose properties are f.
G(g) == [g |-> g, f |-> NoProps]
Fields(f) == [g |-> "fields", f |-> f]
LBrace == G("{")
RBrace == G("}")
\* The code-fence marker (three backquotes).
Fence == G("fence")
Space == G(" ")
NewLine == G("\n")
WhiteTokens == {Space, NewLine}
\* Tokens made of ASCII letters only.
LetterTokens == {G("json"), G("JSON")}

RECURSIVE DropWhile(_, _)
DropWhile(txt, set) ==
  IF txt # <<>> /\ Head(txt) \in set THEN DropWhile(Tail(txt), set) ELSE txt

RECURSIVE DropWhileEnd(_, _)
DropWhileEnd(txt, set) ==
  IF txt # <<>> /\ txt[Len(txt)] \in set
    THEN DropWhileEnd(SubSeq(txt, 1, Len(txt) - 1), set)
    ELSE txt

\* text.trim() on a token sequence.
TrimText(txt) == DropWhileEnd(DropWhile(txt, WhiteTokens), WhiteTokens)

\* indexOf / lastIndexOf, 1-based, 0 when the token does not occur.
IndexOf(txt, tok) ==
  IF \E i \in 1..Len(txt) : txt[i] = tok
    THEN CHOOSE i \in 1..Len(txt) :
           txt[i] = tok /\ \A j \in 1..(i - 1) : txt[j] # tok
    ELSE 0

LastIndexOf(txt, tok) ==
  IF \E i \in 1..Len(txt) : txt[i] = tok
    THEN CHOOSE i \in 1..Len(txt) :
           txt[i] = tok /\ \A j \in (i + 1)..Len(txt) : txt[j] # tok
    ELSE 0

\* A parsed JSON object with properties f.
ParsedObj(f) == [t |-> "object", n |-> 0, s |-> <<"{}">>, f |-> f]
SyntaxError == [t |-> "SyntaxError", n |-> 0, s |-> <<>>]

\* JSON.parse: the JSON value the text denotes, or SyntaxError.
JSONParse(txt) ==
  LET t == TrimText(txt)
  IN  IF Len(t) = 3 /\ t[1] = LBrace /\ t[2].g = "fields" /\ t[3] = RBrace
        THEN ParsedObj(t[2].f)
      ELSE IF t = <<LBrace, RBrace>> THEN ParsedObj(NoProps)
      ELSE IF t = <<G("null")>> THEN Null
      ELSE IF Len(t) = 1 /\ t[1].g \in Digits THEN Whole(DigitValue(t[1].g))
      ELSE IF t = <<G("["), G("]")>> THEN Arr
      ELSE SyntaxError

\* Reading property p of v: a TypeError on undefined and null, the property
\* of a parsed object, undefined on any other value.
ThrowsOnGet(v) == v.t \in {"undefined", "null"}
Get(v, p) == IF "f" \in DOMAIN v THEN v.f[p] ELSE Undef

\* ------------------------------------------------- evaluateAnswer logic

\* The cleanup of the @google/generative-ai variant: trim, strip a leading
\* fence with its language tag and a trailing fence, then keep the text
\* from the first "{" to the last "}".
CleanJsonText(text) ==
  LET trimmed == TrimText(text)
      unfenced ==
        IF trimmed # <<>> /\ Head(trimmed) = Fence
          THEN LET open == DropWhile(DropWhile(Tail(trimmed), LetterTokens),
                                     WhiteTokens)
                   shut == IF open # <<>> /\ open[Len(open)] = Fence
                             THEN SubSeq(open, 1, Len(open) - 1)
                             ELSE open
               IN  TrimText(shut)
          ELSE trimmed
      firstBrace == IndexOf(unfenced, LBrace)
      lastBrace == LastIndexOf(unfenced, RBrace)
  IN  IF firstBrace # 0 /\ lastBrace # 0 /\ lastBrace > firstBrace
        THEN SubSeq(unfenced, firstBrace, lastBrace)
        ELSE unfenced

\* ValidateCoerced with the check of the result label left out.
ValidateCoercedAnyLabel(parsed, exerciseIndex) ==
  LET resultLabel == Get(parsed, "result")
      scoreRaw == ToNumber(Get(parsed, "score"))
      feedback == Get(parsed, "feedbackSummary")
      isValid == /\ NumberIsFinite(scoreRaw)
                 /\ TypeOf(feedback) = "string"
                 /\ Len(Trim(feedback.s)) > 0
  IN  IF ThrowsOnGet(parsed) \/ ~isValid
        THEN getFallbackEvaluation(exerciseIndex)
        ELSE [result |-> resultLabel,
              score |-> MathMax(Whole(0), MathMin(Whole(100), MathRound(scoreRaw))),
              feedbackSummary |-> Str(Trim(feedback.s))]

\* Validation of the two Gemini variants: the score is coerced by Number(),
\* rounded and clamped, the feedback trimmed.
ValidateCoerced(parsed, exerciseIndex) ==
  LET resultLabel == Get(parsed, "result")
      scoreRaw == ToNumber(Get(parsed, "score"))
      feedback == Get(parsed, "feedbackSummary")
      isValid == /\ resultLabel \in ALLOWED_RESULTS
                 /\ NumberIsFinite(scoreRaw)
                 /\ TypeOf(feedback) = "string"
                 /\ Len(Trim(feedback.s)) > 0
  IN  IF ThrowsOnGet(parsed) \/ ~isValid
        THEN getFallbackEvaluation(exerciseIndex)
        ELSE [result |-> resultLabel,
              score |-> MathMax(Whole(0), MathMin(Whole(100), MathRound(scoreRaw))),
              feedbackSummary |-> Str(Trim(feedback.s))]

\* Validation of the OpenAI variant: no coercion, no rounding, no trimming.
ValidateStrict(parsed, exerciseIndex) ==
  LET score == Get(parsed, "score")
      feedback == Get(parsed, "feedbackSummary")
      isValid == /\ Get(parsed, "result") \in ALLOWED_RESULTS
                 /\ NumberIsFinite(score)
                 /\ score.n >= 0
                 /\ score.n <= 2 * 100
                 /\ TypeOf(feedback) = "string"
                 /\ Len(feedback.s) > 0
  IN  IF ThrowsOnGet(parsed) \/ ~isValid
        THEN getFallbackEvaluation(exerciseIndex)
        ELSE [result |-> Get(parsed, "result"), score |-> score,
              feedbackSummary |-> feedback]

\* What the handler answers once the completion call has settled.  out is
\* the outcome of the call: it threw or rejected ("throw"), it carried no
\* content ("null"), or it carried the text out.text.
GeminiAnswer(out, exerciseIndex) ==
  IF out.kind # "text" \/ out.text = <<>>
    THEN getFallbackEvaluation(exerciseIndex)
  ELSE LET parsed == JSONParse(CleanJsonText(out.text))
       IN  IF parsed = SyntaxError
             THEN getFallbackEvaluation(exerciseIndex)
             ELSE ValidateCoerced(parsed, exerciseIndex)

OpenAIAnswer(out, exerciseIndex) ==
  IF out.kind # "text" \/ out.text = <<>>
    THEN getFallbackEvaluation(exerciseIndex)
  ELSE LET parsed == JSONParse(out.text)
       IN  IF parsed = SyntaxError
             THEN getFallbackEvaluation(exerciseIndex)
             ELSE ValidateStrict(parsed, exerciseIndex)

GenAIAnswer(out, exerciseIndex) ==
  IF out.kind # "text" \/ out.text = <<>>
    THEN getFallbackEvaluation(exerciseIndex)
  ELSE LET parsed == JSONParse(out.text)
       IN  IF parsed = SyntaxError
             THEN getFallbackEvaluation(exerciseIndex)
             ELSE ValidateCoerced(parsed, exerciseIndex)

\* ----------------------------------------------- generateExercise logic

ExerciseTypes ==
  {"basic_procedural", "mixed_rules", "applied_word_problem", "exam_multi_step"}
allowedTypes == {Str(<<e>>) : e \in ExerciseTypes}

\* localFallback of the store-backed, type-hint and pickExerciseType variants.
localFallback(exerciseIndex) ==
  IF exerciseIndex = Whole(1)
    THEN [statement |-> Str(<<"Considera a funcao f(x) = 2x^3 - 5x^2 + 3x - 1.",
                              "\n", "Calcula f'(x).">>),
          exerciseType |-> Str(<<"basic_procedural">>)]
  ELSE IF exerciseIndex = Whole(2)
    THEN [statement |-> Str(<<"Seja g(x) = (3x^2 + 1).e^{2x}.", "\n",
                              "Calcula g'(x) usando as regras do produto.">>),
          exerciseType |-> Str(<<"mixed_rules">>)]
  ELSE [statement |-> Str(<<"Numa prova de Matematica, h(x) = (4x - 3).ln(x).",
                            "\n", "Calcula h'(x).">>),
        exerciseType |-> Str(<<"applied_word_problem">>)]

\* localFallback of the index-validating variant: other statements.
localFallback400(exerciseIndex) ==
  IF exerciseIndex = Whole(1)
    THEN [statement |-> Str(<<"1) Considere a funcao f(x) = 3x^2 - 5x + 2.",
                              "\n", "Calcula f'(x).">>),
          exerciseType |-> Str(<<"basic_procedural">>)]
  ELSE IF exerciseIndex = Whole(2)
    THEN [statement |-> Str(<<"2) Considere g(x) = (2x + 1) . e^{x^2}.", "\n",
                              "Usa regras do produto e da cadeia.">>),
          exerciseType |-> Str(<<"mixed_rules">>)]
  ELSE [statement |-> Str(<<"3) Num exercicio de exame, h modela o lucro.",
                            "\n", "Determina h'(x) e interpreta.">>),
        exerciseType |-> Str(<<"applied_word_problem">>)]

\* toLowerCase, glyph by glyph.
LowerGlyph(g) ==
  CASE g = "Modelacao" -> "modelacao"
    [] g = "Resolucao de " -> "resolucao de "
    [] g = "Problema" -> "problema"
    [] g = "Aplicado" -> "aplicado"
    [] g = "Derivadas" -> "derivadas"
    [] OTHER -> g

ToLowerCase(str) == [i \in 1..Len(str) |-> LowerGlyph(str[i])]

\* String.prototype.includes: needle occurs as a contiguous run.
Includes(str, needle) ==
  \E i \in 1..(Len(str) - Len(needle) + 1) :
    SubSeq(str, i, i + Len(needle) - 1) = needle

\* subtopicName || "" is lower-cased: a TypeError when it is truthy and not
\* a string.
PickThrows(subtopicName) == Truthy(subtopicName) /\ subtopicName.t # "string"

\* pickExerciseType of the store-backed variant.
pickExerciseType(subtopicName, difficulty, exerciseIndex) ==
  LET sub == IF Truthy(subtopicName) THEN ToLowerCase(subtopicName.s) ELSE <<>>
  IN  IF Includes(sub, <<"resolucao de ", "problema", "s">>)
           \/ Includes(sub, <<"modelacao">>)
        THEN (IF exerciseIndex = Whole(3) THEN Str(<<"exam_multi_step">>)
              ELSE Str(<<"applied_word_problem">>))
      ELSE IF difficulty = Str(<<"easy">>) THEN Str(<<"basic_procedural">>)
      ELSE IF difficulty = Str(<<"hard">>)
        THEN (IF exerciseIndex = Whole(3) THEN Str(<<"exam_multi_step">>)
              ELSE Str(<<"mixed_rules">>))
      ELSE IF exerciseIndex = Whole(1) THEN Str(<<"basic_procedural">>)
      ELSE IF exerciseIndex = Whole(2) THEN Str(<<"mixed_rules">>)
      ELSE Str(<<"applied_word_problem">>)

\* pickExerciseType of the OpenAI variant kept in evaluateAnswer.ts.
pickExerciseTypeSimple(subtopicName, difficulty, exerciseIndex) ==
  LET sub == IF Truthy(subtopicName) THEN ToLowerCase(subtopicName.s) ELSE <<>>
  IN  IF Includes(sub, <<"problema">>) \/ Includes(sub, <<"aplicado">>)
        THEN Str(<<"applied_word_problem">>)
      ELSE IF difficulty = Str(<<"easy">>) THEN Str(<<"basic_procedural">>)
      ELSE IF difficulty = Str(<<"hard">>)
        THEN (IF exerciseIndex = Whole(3) THEN Str(<<"exam_multi_step">>)
              ELSE Str(<<"mixed_rules">>))
      ELSE IF exerciseIndex = Whole(1) THEN Str(<<"basic_procedural">>)
      ELSE Str(<<"mixed_rules">>)

chooseExerciseTypeHint(exerciseIndex, difficulty) ==
  IF exerciseIndex = Whole(1) THEN Str(<<"basic_procedural">>)
  ELSE IF exerciseIndex = Whole(2) THEN Str(<<"mixed_rules">>)
  ELSE IF difficulty = Str(<<"hard">>) THEN Str(<<"exam_multi_step">>)
  ELSE Str(<<"applied_word_problem">>)

\* completion.choices[0]?.message?.content || "{}"
RawOrEmptyObject(out) ==
  IF out.kind = "text" /\ out.text # <<>> THEN out.text ELSE <<LBrace, RBrace>>

\* RepairAnswer with any truthy exerciseType of the completion passed on.
RepairAnswerAnyType(out, fallback, hint) ==
  IF out.kind = "throw" THEN localFallback(Whole(1))
  ELSE LET parsed == JSONParse(RawOrEmptyObject(out))
           st == Get(parsed, "statement")
           ty == Get(parsed, "exerciseType")
       IN  IF parsed = SyntaxError THEN fallback
           ELSE IF ThrowsOnGet(parsed) THEN localFallback(Whole(1))
           ELSE [statement |->
                   IF TypeOf(st) = "string" /\ Len(Trim(st.s)) > 0
                     THEN Str(Trim(st.s))
                     ELSE fallback.statement,
                 exerciseType |-> IF Truthy(ty) THEN ty ELSE hint]

\* RepairAnswer giving the whole fallback on any violation.
RepairAnswerAllOrNothing(out, fallback, hint) ==
  IF out.kind = "throw" THEN localFallback(Whole(1))
  ELSE LET parsed == JSONParse(RawOrEmptyObject(out))
           st == Get(parsed, "statement")
           ty == Get(parsed, "exerciseType")
       IN  IF parsed = SyntaxError THEN fallback
           ELSE IF ThrowsOnGet(parsed) THEN localFallback(Whole(1))
           ELSE IF TypeOf(st) = "string" /\ Len(Trim(st.s)) > 0
                     /\ ty \in allowedTypes
             THEN [statement |-> Str(Trim(st.s)), exerciseType |-> ty]
           ELSE fallback

\* RepairAnswer replacing a bad exerciseType by the fallback's type.
RepairAnswerFallbackType(out, fallback, hint) ==
  IF out.kind = "throw" THEN localFallback(Whole(1))
  ELSE LET parsed == JSONParse(RawOrEmptyObject(out))
           st == Get(parsed, "statement")
           ty == Get(parsed, "exerciseType")
       IN  IF parsed = SyntaxError THEN fallback
           ELSE IF ThrowsOnGet(parsed) THEN localFallback(Whole(1))
           ELSE [statement |->
                   IF TypeOf(st) = "string" /\ Len(Trim(st.s)) > 0
                     THEN Str(Trim(st.s))
                     ELSE fallback.statement,
                 exerciseType |->
                   IF ty \in allowedTypes THEN ty ELSE fallback.exerciseType]

\* The field-by-field repair of the three clamping variants: fallback is
\* localFallback(safeIndex), hint the exercise type computed for the request.
RepairAnswer(out, fallback, hint) ==
  IF out.kind = "throw" THEN localFallback(Whole(1))
  ELSE LET parsed == JSONParse(RawOrEmptyObject(out))
           st == Get(parsed, "statement")
           ty == Get(parsed, "exerciseType")
       IN  IF parsed = SyntaxError THEN fallback
           ELSE IF ThrowsOnGet(parsed) THEN localFallback(Whole(1))
           ELSE [statement |->
                   IF TypeOf(st) = "string" /\ Len(Trim(st.s)) > 0
                     THEN Str(Trim(st.s))
                     ELSE fallback.statement,
                 exerciseType |-> IF ty \in allowedTypes THEN ty ELSE hint]

\* The index-validating variant: the parse is not guarded, the statement is
\* not trimmed, and the fallback's own type replaces a bad exerciseType.
Answer400(out, exerciseIndex) ==
  IF out.kind = "throw" THEN localFallback400(Whole(1))
  ELSE LET parsed == JSONParse(RawOrEmptyObject(out))
           fallback == localFallback400(exerciseIndex)
           st == Get(parsed, "statement")
           ty == Get(parsed, "exerciseType")
       IN  IF parsed = SyntaxError \/ ThrowsOnGet(parsed)
             THEN localFallback400(Whole(1))
           ELSE [statement |->
                   IF TypeOf(st) = "string" /\ Len(Trim(st.s)) > 0
                     THEN st
                     ELSE fallback.statement,
                 exerciseType |->
                   IF Truthy(ty) /\ ty \in allowedTypes
                     THEN ty
                     ELSE fallback.exerciseType]

\* ------------------------------------------------------- image encoding

B64Chars ==
  <<"A", "B", "C", "D", "E", "F", "G", "H", "I", "J", "K", "L", "M", "N", "O",
    "P", "Q", "R", "S", "T", "U", "V", "W", "X", "Y", "Z", "a", "b", "c", "d",
    "e", "f", "g", "h", "i", "j", "k", "l", "m", "n", "o", "p", "q", "r", "s",
    "t", "u", "v", "w", "x", "y", "z", "0", "1", "2", "3", "4", "5", "6", "7",
    "8", "9", "+", "/">>

\* Buffer.from(bytes).toString("base64"): three bytes give four characters,
\* a last group of one or two bytes is padded with "=".
RECURSIVE Base64(_)
Base64(bytes) ==
  IF bytes = <<>> THEN <<>>
  ELSE IF Len(bytes) = 1
    THEN <<B64Chars[(bytes[1] \div 4) + 1],
           B64Chars[((bytes[1] % 4) * 16) + 1], "=", "=">>
  ELSE IF Len(bytes) = 2
    THEN <<B64Chars[(bytes[1] \div 4) + 1],
           B64Chars[((bytes[1] % 4) * 16 + (bytes[2] \div 16)) + 1],
           B64Chars[((bytes[2] % 16) * 4) + 1], "=">>
  ELSE <<B64Chars[(bytes[1] \div 4) + 1],
         B64Chars[((bytes[1] % 4) * 16 + (bytes[2] \div 16)) + 1],
         B64Chars[((bytes[2] % 16) * 4 + (bytes[3] \div 64)) + 1],
         B64Chars[(bytes[3] % 64) + 1]>>
       \o Base64(SubSeq(bytes, 4, Len(bytes)))

\* The MIME type taken from the content-type header: the header up to its
\* first ";" when it starts with "image/", image/jpeg otherwise.
DefaultMime == <<"image/", "jpeg">>
\* MimeFromHeader with the parameters of the header left in place.
MimeFromHeaderWhole(header) ==
  LET contentTypeHeader == IF Truthy(header) THEN header.s ELSE DefaultMime
  IN  IF Head(contentTypeHeader) = "image/" THEN contentTypeHeader
      ELSE DefaultMime

MimeFromHeader(header) ==
  LET contentTypeHeader == IF Truthy(header) THEN header.s ELSE DefaultMime
      semi == IndexOf(contentTypeHeader, ";")
  IN  IF Head(contentTypeHeader) = "image/"
        THEN (IF semi = 0 THEN contentTypeHeader
              ELSE SubSeq(contentTypeHeader, 1, semi - 1))
        ELSE DefaultMime

\* ---------------------------------------------------------- the inputs

EvalVariants == {"evalGemini", "evalOpenAI", "evalGenAI"}
ClampingVariants == {"genStore", "genHint", "genPick"}
GenVariants == ClampingVariants \cup {"gen400"}
Variants == EvalVariants \cup GenVariants

Methods == {"POST", "GET"}

IndexValues ==
  {Undef, Null, NaN, Str(<<"a", "b", "c">>), Str(<<"2">>), Obj}
    \cup {Num(h) : h \in (0 - MinIndexHalves)..MaxIndexHalves}

StatementValues == {Undef, Whole(5), Str(<<" ">>), Str(<<"Calcula f'(x).">>)}
ImageUrlValues == {Undef, Whole(5), Str(<<" ">>), Str(<<"https://cdn/a.jpg">>)}
UserAnswerValues == {Undef, Null, Str(<<" ", "x = 2">>)}
SubtopicValues ==
  {Undef, Whole(7), Str(<<" ">>), Str(<<"Derivadas">>), Str(<<"Modelacao">>),
   Str(<<"Problema", "s de otimizacao">>)}
DifficultyValues ==
  {Undef, Str(<<"easy">>), Str(<<"medium">>), Str(<<"hard">>), Str(<<"extreme">>)}

NoBodyField ==
  [statement |-> Undef, userAnswer |-> Undef, imageUrl |-> Undef,
   exerciseIndex |-> Undef, subtopicName |-> Undef, difficulty |-> Undef]

\* The bodies a request to evaluateAnswer carries: the JSON literal null, or
\* an object (subtopicName and difficulty only reach the prompt).
EvalBodies ==
  {Null} \cup
  {[NoBodyField EXCEPT !.statement = st, !.userAnswer = ua, !.imageUrl = im,
                       !.exerciseIndex = ix] :
     st \in StatementValues, ua \in UserAnswerValues, im \in ImageUrlValues,
     ix \in IndexValues}

GenBodies ==
  {Null} \cup
  {[NoBodyField EXCEPT !.subtopicName = su, !.difficulty = di,
                       !.exerciseIndex = ix] :
     su \in SubtopicValues, di \in DifficultyValues, ix \in IndexValues}

\* What the image fetch can give.
ContentTypes ==
  {Null, Str(<<"image/", "png">>),
   Str(<<"image/", "webp", ";", " charset=binary">>), Str(<<"text/html">>)}
FetchOutcomes ==
  {[kind |-> "reject", header |-> Null], [kind |-> "status404", header |-> Null]}
    \cup {[kind |-> "ok", header |-> h] : h \in ContentTypes}
ReadOutcomes ==
  {[kind |-> "reject", bytes |-> <<>>], [kind |-> "ok", bytes |-> <<>>],
   [kind |-> "ok", bytes |-> <<255, 216, 255, 224>>]}

\* What the completion service can give to evaluateAnswer.
ResultValues ==
  {Undef, Str(<<"correct">>), Str(<<"partial">>), Str(<<"incorrect">>),
   Str(<<"excellent">>)}
ScoreValues ==
  {Undef, Null, Bool(TRUE), Arr, Str(<<>>), Str(<<"8", "5">>),
   Str(<<"a", "b", "c">>), Num(0 - 3), Num(170), Num(171), Num(201)}
FeedbackValues ==
  {Undef, Whole(7), Str(<<>>), Str(<<" ">>), Str(<<" ", "Bom raciocinio.", " ">>)}
EvalProps ==
  {[NoProps EXCEPT !.result = r, !.score = sc, !.feedbackSummary = fb] :
     r \in ResultValues, sc \in ScoreValues, fb \in FeedbackValues}

GoodEvalProps(sc) ==
  [NoProps EXCEPT !.result = Str(<<"partial">>), !.score = sc,
                  !.feedbackSummary = Str(<<"Bom raciocinio.">>)]

Commentary == G("-- nota --")
Wrapped(ps) ==
  {<<Fence, G("json"), NewLine, LBrace, Fields(ps), RBrace, NewLine, Fence>>,
   <<Fence, NewLine, LBrace, Fields(ps), RBrace, NewLine, Fence, NewLine>>,
   <<Commentary, Space, LBrace, Fields(ps), RBrace, Space, Commentary>>}

NonObjectTexts ==
  {<<Space>>, <<Commentary>>, <<G("null")>>, <<G("7")>>, <<G("["), G("]")>>,
   <<LBrace, RBrace>>, <<RBrace, Commentary, LBrace>>}

EvalTexts ==
  {<<LBrace, Fields(ps), RBrace>> : ps \in EvalProps}
    \cup Wrapped(GoodEvalProps(Str(<<"8", "5">>)))
    \cup Wrapped(GoodEvalProps(Num(170)))
    \cup NonObjectTexts

\* What the completion service can give to generateExercise.
GenStatementValues ==
  {Undef, Whole(3), Str(<<" ">>), Str(<<" ", "Calcula g'(x).", "\n">>)}
GenTypeValues ==
  {Undef, Null, Str(<<"essay">>), Str(<<"basic_procedural">>),
   Str(<<"exam_multi_step">>)}
GenProps ==
  {[NoProps EXCEPT !.statement = st, !.exerciseType = ty] :
     st \in GenStatementValues, ty \in GenTypeValues}
GenTexts ==
  {<<LBrace, Fields(ps), RBrace>> : ps \in GenProps} \cup NonObjectTexts

Outcomes(texts) ==
  {[kind |-> "throw", text |-> <<>>], [kind |-> "null", text |-> <<>>],
   [kind |-> "text", text |-> <<>>]}
    \cup {[kind |-> "text", text |-> t] : t \in texts}

\* What the subtopic store can give: the query rejects, it resolves with an
\* error, with no row, or with a row of the given name.
LookupOutcomes ==
  {[kind |-> "reject", name |-> Null], [kind |-> "error", name |-> Null],
   [kind |-> "none", name |-> Null], [kind |-> "row", name |-> Null],
   [kind |-> "row", name |-> Str(<<"Derivadas">>)],
   [kind |-> "row", name |-> Str(<<"Modelacao">>)]}

\* ------------------------------------------------------------ the state

VARIABLES
  req,       \* the request: variant of the handler, method, body, credential
  pc,        \* where the handler is
  loc,       \* the handler's locals
  calls,     \* external operations issued so far
  sent,      \* the image part passed to the completion call
  bodyRead,  \* the handler has read req.body
  resp,      \* the response sent
  pending,   \* external operations issued and not yet settled
  parked     \* the handler invocation suspended at an await, if any

vars == <<req, pc, loc, calls, sent, bodyRead, resp, pending, parked>>

NoRequest ==
  [variant |-> "none", method |-> "none", body |-> Null, apiKey |-> FALSE]
NoLocals ==
  [exerciseIndex |-> Undef, hint |-> Undef, ctx |-> Null,
   mimeType |-> DefaultMime, out |-> [kind |-> "none", text |-> <<>>],
   imgResp |-> [kind |-> "none", header |-> Null],
   arrBuf |-> [kind |-> "none", bytes |-> <<>>],
   row |-> [kind |-> "none", name |-> Null]]
NoCalls == [fetch |-> 0, lookup |-> 0, completion |-> 0]
NoImage == [mimeType |-> <<>>, data |-> <<>>]
NoResponse == [status |-> 0, headers |-> {}, body |-> Undef]

\* An invocation of a handler: its request, its position, its locals and
\* what has been observed of it.  No module-level binding of the two files
\* is assigned or mutated by a handler, so an invocation has nothing else.
IdleInvocation ==
  [req |-> NoRequest, pc |-> "idle", loc |-> NoLocals, calls |-> NoCalls,
   sent |-> NoImage, bodyRead |-> FALSE, resp |-> NoResponse, pending |-> {}]

Init ==
  /\ parked = IdleInvocation
  /\ req = NoRequest
  /\ pc = "idle"
  /\ loc = NoLocals
  /\ calls = NoCalls
  /\ sent = NoImage
  /\ bodyRead = FALSE
  /\ resp = NoResponse
  /\ pending = {}

\* res.status(status).json(body), after any res.setHeader.
Respond(status, headers, body) ==
  /\ resp' = [status |-> status, headers |-> headers, body |-> body]
  /\ pc' = "done"

\* An exception no try block of the handler catches: the handler sends
\* nothing and the framework answers 500.
Escape == Respond(500, {}, [error |-> "Internal Server Error"])

\* The 405 answer with res.setHeader left out.
NoAllowHeader == {}

MethodNotAllowed == [error |-> "Method not allowed"]
AllowPost == {<<"Allow", "POST">>}

\* A request arrives at one of the handlers.
Receive ==
  /\ pc = "idle"
  /\ \E v \in Variants, m \in Methods, k \in BOOLEAN :
       \E b \in (IF v \in EvalVariants THEN EvalBodies ELSE GenBodies) :
         /\ v \in GenVariants => k
         /\ req' = [variant |-> v, method |-> m, body |-> b, apiKey |-> k]
  /\ pc' = "entry"
  /\ UNCHANGED <<loc, calls, sent, bodyRead, resp, pending, parked>>

\* ------------------------------------------------ evaluateAnswer steps

\* The test of a required text field: absent, not a string, or blank.
InvalidText(v) == ~Truthy(v) \/ TypeOf(v) # "string" \/ Trim(v.s) = <<>>

\* The handler up to its first await: method check, destructuring of the
\* body, index clamp, the three early returns, userAnswer.toString(), and
\* the call of fetch(imageUrl).
EvalEntry ==
  /\ pc = "entry"
  /\ req.variant \in EvalVariants
  /\ IF req.method # "POST"
       THEN /\ Respond(405, {}, MethodNotAllowed)
            /\ UNCHANGED <<loc, calls, bodyRead, pending>>
     ELSE IF req.body = Null
       THEN /\ Escape
            /\ bodyRead' = TRUE
            /\ UNCHANGED <<loc, calls, pending>>
     ELSE LET exerciseIndex == sanitizeExerciseIndex(req.body.exerciseIndex)
              userAnswer == IF req.body.userAnswer = Undef THEN Str(<<>>)
                            ELSE req.body.userAnswer
          IN  /\ bodyRead' = TRUE
              /\ loc' = [loc EXCEPT !.exerciseIndex = exerciseIndex]
              /\ IF \/ InvalidText(req.body.statement)
                    \/ InvalidText(req.body.imageUrl)
                    \/ ~req.apiKey
                   THEN /\ Respond(200, {}, getFallbackEvaluation(exerciseIndex))
                        /\ UNCHANGED <<calls, pending>>
                 ELSE IF ThrowsOnGet(userAnswer)
                   THEN Escape /\ UNCHANGED <<calls, pending>>
                 ELSE /\ calls' = [calls EXCEPT !.fetch = @ + 1]
                      /\ pending' = pending \cup {"fetch"}
                      /\ pc' = "fetch"
                      /\ UNCHANGED resp
  /\ UNCHANGED <<req, sent, parked>>

\* FetchImage with one more attempt after a failed one.
FetchImageRetrying ==
  /\ pc = "fetch"
  /\ \E o \in FetchOutcomes :
       IF o.kind # "ok" /\ calls.fetch < 2
         THEN /\ loc' = [loc EXCEPT !.imgResp = o]
              /\ calls' = [calls EXCEPT !.fetch = @ + 1]
              /\ UNCHANGED <<pc, resp, pending>>
       ELSE IF o.kind # "ok"
         THEN /\ Respond(200, {}, getFallbackEvaluation(loc.exerciseIndex))
              /\ loc' = [loc EXCEPT !.imgResp = o]
              /\ pending' = pending \ {"fetch"}
              /\ UNCHANGED calls
         ELSE /\ loc' = [loc EXCEPT !.imgResp = o]
              /\ pc' = "read"
              /\ UNCHANGED <<resp, pending, calls>>
  /\ UNCHANGED <<req, bodyRead, sent, parked>>

\* FetchImage with the test of imgResp.ok left out: a 404 is read as an image.
FetchImageUnchecked ==
  /\ pc = "fetch"
  /\ \E o \in FetchOutcomes :
       IF o.kind = "reject"
         THEN /\ Respond(200, {}, getFallbackEvaluation(loc.exerciseIndex))
              /\ loc' = [loc EXCEPT !.imgResp = o]
              /\ pending' = pending \ {"fetch"}
         ELSE /\ loc' = [loc EXCEPT !.imgResp = o]
              /\ pc' = "read"
              /\ UNCHANGED <<resp, pending>>
  /\ UNCHANGED <<req, calls, bodyRead, sent, parked>>

\* await fetch(imageUrl) settles: rejection and a non-ok status go to the
\* catch; otherwise the two Gemini variants take the MIME type from the
\* header and every variant goes on to await arrayBuffer().
FetchImage ==
  /\ pc = "fetch"
  /\ \E o \in FetchOutcomes :
       IF o.kind # "ok"
         THEN /\ Respond(200, {}, getFallbackEvaluation(loc.exerciseIndex))
              /\ loc' = [loc EXCEPT !.imgResp = o]
              /\ pending' = pending \ {"fetch"}
         ELSE /\ loc' = [loc EXCEPT !.imgResp = o, !.mimeType =
                           IF req.variant = "evalOpenAI" THEN DefaultMime
                           ELSE MimeFromHeader(o.header)]
              /\ pc' = "read"
              /\ UNCHANGED <<resp, pending>>
  /\ UNCHANGED <<req, calls, bodyRead, sent, parked>>

\* ImagePart with a fixed payload in place of the encoded bytes.
ImagePartPlaceholder(variant, mimeType, base64Image) ==
  [mimeType |-> mimeType, data |-> <<"A", "A", "A", "A">>]

\* The image part of the completion call: the second Gemini variant filters
\* an empty encoding out of the parts.
ImagePart(variant, mimeType, base64Image) ==
  IF variant = "evalGenAI" /\ base64Image = <<>>
    THEN NoImage
    ELSE [mimeType |-> mimeType, data |-> base64Image]

\* await imgResp.arrayBuffer() settles; the bytes are encoded and the
\* completion call is issued with them.  The first Gemini variant falls
\* back on an empty encoding, the second leaves the image part out.
ReadBytes ==
  /\ pc = "read"
  /\ \E o \in ReadOutcomes :
       LET base64Image == Base64(o.bytes)
       IN  IF o.kind # "ok" \/ (req.variant = "evalGemini" /\ base64Image = <<>>)
             THEN /\ Respond(200, {}, getFallbackEvaluation(loc.exerciseIndex))
                  /\ loc' = [loc EXCEPT !.arrBuf = o]
                  /\ pending' = pending \ {"fetch"}
                  /\ UNCHANGED <<calls, sent>>
             ELSE /\ calls' = [calls EXCEPT !.completion = @ + 1]
                  /\ loc' = [loc EXCEPT !.arrBuf = o]
                  /\ sent' = ImagePart(req.variant, loc.mimeType, base64Image)
                  /\ pending' = (pending \ {"fetch"}) \cup {"completion"}
                  /\ pc' = "complete"
                  /\ UNCHANGED resp
  /\ UNCHANGED <<req, bodyRead, parked>>

\* The completion call settles and the handler answers.
GeminiCompletion ==
  /\ pc = "complete"
  /\ req.variant = "evalGemini"
  /\ \E o \in Outcomes(EvalTexts) :
       /\ o.kind # "null"
       /\ loc' = [loc EXCEPT !.out = o]
       /\ Respond(200, {}, GeminiAnswer(o, loc.exerciseIndex))
  /\ pending' = pending \ {"completion"}
  /\ UNCHANGED <<req, calls, sent, bodyRead, parked>>

OpenAICompletion ==
  /\ pc = "complete"
  /\ req.variant = "evalOpenAI"
  /\ \E o \in Outcomes(EvalTexts) :
       /\ loc' = [loc EXCEPT !.out = o]
       /\ Respond(200, {}, OpenAIAnswer(o, loc.exerciseIndex))
  /\ pending' = pending \ {"completion"}
  /\ UNCHANGED <<req, calls, sent, bodyRead, parked>>

GenAICompletion ==
  /\ pc = "complete"
  /\ req.variant = "evalGenAI"
  /\ \E o \in Outcomes(EvalTexts) :
       /\ o.kind # "null"
       /\ loc' = [loc EXCEPT !.out = o]
       /\ Respond(200, {}, GenAIAnswer(o, loc.exerciseIndex))
  /\ pending' = pending \ {"completion"}
  /\ UNCHANGED <<req, calls, sent, bodyRead, parked>>

\* ---------------------------------------------- generateExercise steps

MethodNotAllowedGen == [error |-> "Method Not Allowed"]
BadIndex == [error |-> "exerciseIndex must be 1, 2 or 3"]

\* body.difficulty || "medium"
DifficultyOrMedium(d) == IF Truthy(d) THEN d ELSE Str(<<"medium">>)

\* subtopicName?.trim() || "Derivadas"; a TypeError when subtopicName is
\* neither nullish nor a string.
TrimThrows(subtopicName) ==
  subtopicName.t \notin {"undefined", "null", "string"}
TrimOrDefault(subtopicName) ==
  IF subtopicName.t = "string" /\ Trim(subtopicName.s) # <<>>
    THEN Str(Trim(subtopicName.s))
    ELSE Str(<<"Derivadas">>)

IssueCompletion ==
  /\ calls' = [calls EXCEPT !.completion = @ + 1]
  /\ pending' = (pending \ {"lookup"}) \cup {"completion"}
  /\ pc' = "complete"
  /\ UNCHANGED resp

\* The store-backed handler up to its first await, the subtopic lookup.
\* Everything after the method check runs inside the try block.
StoreEntry ==
  /\ pc = "entry"
  /\ req.variant = "genStore"
  /\ IF req.method # "POST"
       THEN /\ Respond(405, AllowPost, MethodNotAllowedGen)
            /\ UNCHANGED <<loc, calls, bodyRead, pending>>
     ELSE IF req.body = Null
       THEN /\ Respond(200, {}, localFallback(Whole(1)))
            /\ bodyRead' = TRUE
            /\ UNCHANGED <<loc, calls, pending>>
     ELSE /\ bodyRead' = TRUE
          /\ loc' = [loc EXCEPT !.exerciseIndex =
                       sanitizeExerciseIndex(req.body.exerciseIndex)]
          /\ calls' = [calls EXCEPT !.lookup = @ + 1]
          /\ pending' = pending \cup {"lookup"}
          /\ pc' = "lookup"
          /\ UNCHANGED resp
  /\ UNCHANGED <<req, sent, parked>>

\* fetchSubtopicContext: the row's name, or null on an error or no row.
fetchSubtopicContext(o) == IF o.kind = "row" THEN [subtopicName |-> o.name] ELSE Null

\* ctx?.subtopicName || body.subtopicName || "Subtema de derivadas"
SubtopicLabel(ctx, bodyName) ==
  IF ctx # Null /\ Truthy(ctx.subtopicName) THEN ctx.subtopicName
  ELSE IF Truthy(bodyName) THEN bodyName
  ELSE Str(<<"Subtema de derivadas">>)

\* The lookup settles; the labels and the exercise type are computed and
\* the completion call is issued.
StoreLookup ==
  /\ pc = "lookup"
  /\ \E o \in LookupOutcomes :
       LET ctx == fetchSubtopicContext(o)
           subtopicLabel == SubtopicLabel(ctx, req.body.subtopicName)
           difficulty == DifficultyOrMedium(req.body.difficulty)
       IN  IF o.kind = "reject" \/ PickThrows(subtopicLabel)
             THEN /\ Respond(200, {}, localFallback(Whole(1)))
                  /\ loc' = [loc EXCEPT !.row = o]
                  /\ pending' = pending \ {"lookup"}
                  /\ UNCHANGED calls
             ELSE /\ loc' = [loc EXCEPT !.row = o, !.ctx = ctx, !.hint =
                               pickExerciseType(subtopicLabel, difficulty,
                                                loc.exerciseIndex)]
                  /\ IssueCompletion
  /\ UNCHANGED <<req, sent, bodyRead, parked>>

\* The type-hint handler up to its await of the completion call.
HintEntry ==
  /\ pc = "entry"
  /\ req.variant = "genHint"
  /\ IF req.method # "POST"
       THEN /\ Respond(405, AllowPost, MethodNotAllowedGen)
            /\ UNCHANGED <<loc, calls, bodyRead, pending>>
     ELSE IF req.body = Null \/ TrimThrows(req.body.subtopicName)
       THEN /\ Respond(200, {}, localFallback(Whole(1)))
            /\ bodyRead' = TRUE
            /\ UNCHANGED <<loc, calls, pending>>
     ELSE LET safeIndex == sanitizeExerciseIndex(req.body.exerciseIndex)
              diff == IF req.body.difficulty \in {Str(<<"easy">>), Str(<<"hard">>)}
                        THEN req.body.difficulty
                        ELSE Str(<<"medium">>)
          IN  /\ bodyRead' = TRUE
              /\ loc' = [loc EXCEPT !.exerciseIndex = safeIndex,
                                    !.hint = chooseExerciseTypeHint(safeIndex, diff)]
              /\ IssueCompletion
  /\ UNCHANGED <<req, sent, parked>>

\* The pickExerciseType handler up to its await of the completion call.
PickEntry ==
  /\ pc = "entry"
  /\ req.variant = "genPick"
  /\ IF req.method # "POST"
       THEN /\ Respond(405, AllowPost, MethodNotAllowedGen)
            /\ UNCHANGED <<loc, calls, bodyRead, pending>>
     ELSE IF req.body = Null \/ TrimThrows(req.body.subtopicName)
       THEN /\ Respond(200, {}, localFallback(Whole(1)))
            /\ bodyRead' = TRUE
            /\ UNCHANGED <<loc, calls, pending>>
     ELSE LET safeIndex == sanitizeExerciseIndex(req.body.exerciseIndex)
              diff == DifficultyOrMedium(req.body.difficulty)
              sub == TrimOrDefault(req.body.subtopicName)
          IN  /\ bodyRead' = TRUE
              /\ loc' = [loc EXCEPT !.exerciseIndex = safeIndex,
                                    !.hint = pickExerciseTypeSimple(sub, diff, safeIndex)]
              /\ IssueCompletion
  /\ UNCHANGED <<req, sent, parked>>

\* The completion call of a clamping variant settles and the handler answers.
RepairCompletion ==
  /\ pc = "complete"
  /\ req.variant \in ClampingVariants
  /\ \E o \in Outcomes(GenTexts) :
       /\ loc' = [loc EXCEPT !.out = o]
       /\ Respond(200, {}, RepairAnswer(o, localFallback(loc.exerciseIndex), loc.hint))
  /\ pending' = pending \ {"completion"}
  /\ UNCHANGED <<req, calls, sent, bodyRead, parked>>

\* typeof exerciseIndex !== "number" || exerciseIndex < 1 || exerciseIndex > 3
IndexRejected(exerciseIndex) ==
  \/ TypeOf(exerciseIndex) # "number"
  \/ LessThan(exerciseIndex, 1)
  \/ GreaterThan(exerciseIndex, 3)

\* The index-validating handler up to its await of the completion call.
Entry400 ==
  /\ pc = "entry"
  /\ req.variant = "gen400"
  /\ IF req.method # "POST"
       THEN /\ Respond(405, AllowPost, MethodNotAllowedGen)
            /\ UNCHANGED <<loc, calls, bodyRead, pending>>
     ELSE IF req.body = Null
       THEN /\ Respond(200, {}, localFallback400(Whole(1)))
            /\ bodyRead' = TRUE
            /\ UNCHANGED <<loc, calls, pending>>
     ELSE IF IndexRejected(req.body.exerciseIndex)
       THEN /\ Respond(400, {}, BadIndex)
            /\ bodyRead' = TRUE
            /\ UNCHANGED <<loc, calls, pending>>
     ELSE /\ bodyRead' = TRUE
          /\ loc' = [loc EXCEPT !.exerciseIndex = req.body.exerciseIndex]
          /\ IssueCompletion
  /\ UNCHANGED <<req, sent, parked>>

\* The completion call of the index-validating variant settles.
Completion400 ==
  /\ pc = "complete"
  /\ req.variant = "gen400"
  /\ \E o \in Outcomes(GenTexts) :
       /\ loc' = [loc EXCEPT !.out = o]
       /\ Respond(200, {}, Answer400(o, loc.exerciseIndex))
  /\ pending' = pending \ {"completion"}
  /\ UNCHANGED <<req, calls, sent, bodyRead, parked>>

\* ---------------------------------------------------- the specification

Next ==
  \/ Receive
  \/ EvalEntry
  \/ FetchImage
  \/ ReadBytes
  \/ GeminiCompletion
  \/ OpenAICompletion
  \/ GenAICompletion
  \/ StoreEntry
  \/ StoreLookup
  \/ HintEntry
  \/ PickEntry
  \/ RepairCompletion
  \/ Entry400
  \/ Completion400

Spec == Init /\ [][Next]_vars

\* ------------------------------------------------------------ properties

Answered == pc = "done"
IsPost == req.method = "POST"

\* The index the handler clamps for the request in hand (a body without
\* fields has no exerciseIndex).
RequestIndex ==
  IF req.body = Null THEN sanitizeExerciseIndex(Undef)
  ELSE sanitizeExerciseIndex(req.body.exerciseIndex)

\* The completion call of the request in hand has settled with o.
Completed == Answered /\ loc.out.kind # "none"

\* C1: every POST request is answered 200 and no exception escapes the
\* handler; the only other statuses are 405 for a method other than POST
\* and 400 in the index-validating generateExercise variant.
C1_NoServerError ==
  Answered =>
    \/ resp.status = 200
    \/ resp.status = 405 /\ ~IsPost
    \/ resp.status = 400 /\ req.variant = "gen400" /\ IsPost

\* A whole number of halves between 0 and 100.
IsIntegerScore(v) ==
  IsFiniteNum(v) /\ v.n % 2 = 0 /\ v.n >= 0 /\ v.n <= 200

\* C2: every 200 body of evaluateAnswer has result among correct, partial
\* and incorrect, an integer score in [0,100] and a feedbackSummary that is
\* a string not empty after trimming.
C2_EvaluationWellFormed ==
  (Answered /\ req.variant \in EvalVariants /\ resp.status = 200) =>
    /\ resp.body.result \in {Str(<<"correct">>), Str(<<"partial">>),
                              Str(<<"incorrect">>)}
    /\ IsIntegerScore(resp.body.score)
    /\ resp.body.feedbackSummary.t = "string"
    /\ Trim(resp.body.feedbackSummary.s) # <<>>

\* C3: every 200 body of generateExercise has a statement that is a
\* non-empty string and an exerciseType among the four allowed values.
C3_ExerciseWellFormed ==
  (Answered /\ req.variant \in GenVariants /\ resp.status = 200) =>
    /\ resp.body.statement.t = "string"
    /\ resp.body.statement.s # <<>>
    /\ resp.body.exerciseType \in
         {Str(<<"basic_procedural">>), Str(<<"mixed_rules">>),
          Str(<<"applied_word_problem">>), Str(<<"exam_multi_step">>)}

\* A partially repaired answer: the completion's statement is kept and its
\* exerciseType, not an allowed one, is replaced.
C3_Witness ==
  /\ Completed
  /\ req.variant = "genStore"
  /\ resp.status = 200
  /\ loc.out.text = <<LBrace,
                       Fields([NoProps EXCEPT
                                 !.statement = Str(<<" ", "Calcula g'(x).", "\n">>),
                                 !.exerciseType = Str(<<"essay">>)]),
                       RBrace>>
  /\ resp.body.statement = Str(<<"Calcula g'(x).">>)

IsParsedObject(p) == "f" \in DOMAIN p

\* The completion output does not give a valid evaluation: after cleanup it
\* is no JSON object (a syntax error, null, a number, an array), or the
\* object lacks one of the three fields or its result is no allowed label.
BadEvalOutput(o) ==
  /\ o.kind \in {"text", "null"}
  /\ LET p == JSONParse(CleanJsonText(o.text))
     IN  \/ ~IsParsedObject(p)
         \/ p.f.result = Undef
         \/ p.f.score = Undef
         \/ p.f.feedbackSummary = Undef
         \/ p.f.result \notin {Str(<<"correct">>), Str(<<"partial">>),
                                Str(<<"incorrect">>)}

\* C4: in evaluateAnswer, a completion output that is no structured object,
\* lacks result, score or feedbackSummary, or has a result outside the three
\* labels is answered 200 with the fallback record of the sanitized index.
C4_BadOutputFallsBack ==
  (Completed /\ req.variant \in EvalVariants /\ BadEvalOutput(loc.out)) =>
    /\ resp.status = 200
    /\ resp.body = getFallbackEvaluation(RequestIndex)

\* JSON null from the completion service, for a request with index 2.
C4_Witness ==
  /\ Completed
  /\ req.variant = "evalGemini"
  /\ req.body.exerciseIndex = Whole(2)
  /\ loc.out.text = <<G("null")>>
  /\ resp.body = getFallbackEvaluation(Whole(2))

\* The fallback table of the variant in hand.
FallbackFor(variant, exerciseIndex) ==
  IF variant = "gen400" THEN localFallback400(exerciseIndex)
  ELSE localFallback(exerciseIndex)

\* The exercise type that the clamping variant in hand computes for the
\* request from subtopic, difficulty and sanitized index.
RequestHint ==
  CASE req.variant = "genStore" ->
         pickExerciseType(SubtopicLabel(loc.ctx, req.body.subtopicName),
                          DifficultyOrMedium(req.body.difficulty), RequestIndex)
    [] req.variant = "genPick" ->
         pickExerciseTypeSimple(TrimOrDefault(req.body.subtopicName),
                                DifficultyOrMedium(req.body.difficulty),
                                RequestIndex)
    [] OTHER ->
         chooseExerciseTypeHint(
           RequestIndex,
           IF req.body.difficulty \in {Str(<<"easy">>), Str(<<"hard">>)}
             THEN req.body.difficulty ELSE Str(<<"medium">>))

\* The completion call returned and o is what generateExercise parses: the
\* content, or "{}" when there is none.
GenParsed(o) == JSONParse(IF o.text = <<>> THEN <<LBrace, RBrace>> ELSE o.text)
Returned(o) == o.kind \in {"text", "null"}

HasStatement(p) ==
  Get(p, "statement").t = "string" /\ Trim(Get(p, "statement").s) # <<>>
HasAllowedType(p) ==
  Get(p, "exerciseType") \in
    {Str(<<"basic_procedural">>), Str(<<"mixed_rules">>),
     Str(<<"applied_word_problem">>), Str(<<"exam_multi_step">>)}

StatementButNoType(o) ==
  /\ Returned(o)
  /\ IsParsedObject(GenParsed(o))
  /\ HasStatement(GenParsed(o))
  /\ ~HasAllowedType(GenParsed(o))

\* C6 as stated: in every variant such an output is answered with the
\* completion's trimmed statement and the hint that pickExerciseType or
\* chooseExerciseTypeHint gives for the request.
C6_HintReplacesType ==
  (Completed /\ req.variant \in GenVariants /\ StatementButNoType(loc.out)) =>
    /\ resp.body.statement = Str(Trim(Get(GenParsed(loc.out), "statement").s))
    /\ resp.body.exerciseType = RequestHint

\* C6 amended: the three clamping variants answer with the trimmed statement
\* and the computed hint; the index-validating variant answers with the
\* statement as received and the exerciseType of localFallback(index).
C6_HintOrFallbackType ==
  (Completed /\ req.variant \in GenVariants /\ StatementButNoType(loc.out)) =>
    LET st == Get(GenParsed(loc.out), "statement")
    IN  IF req.variant = "gen400"
          THEN /\ resp.body.statement = st
               /\ resp.body.exerciseType =
                    localFallback400(req.body.exerciseIndex).exerciseType
          ELSE /\ resp.body.statement = Str(Trim(st.s))
               /\ resp.body.exerciseType = RequestHint

\* An easy request with index 2: the hint is not the fallback's type.
C6_Witness ==
  /\ Completed
  /\ req.variant = "genPick"
  /\ req.body.exerciseIndex = Whole(2)
  /\ req.body.difficulty = Str(<<"easy">>)
  /\ StatementButNoType(loc.out)
  /\ resp.body.exerciseType = Str(<<"basic_procedural">>)
  /\ resp.body.exerciseType # localFallback(Whole(2)).exerciseType

\* C7: when the completion call fails, or a later step throws, the answer
\* is 200 with the fallback record of the request's sanitized index.
C7_FailureFallsBackByIndex ==
  (/\ Completed
   /\ req.variant \in GenVariants
   /\ loc.out.kind = "throw" \/ GenParsed(loc.out) = Null)
    => /\ resp.status = 200
       /\ resp.body = FallbackFor(req.variant, RequestIndex)

\* What C8 says sanitizeExerciseIndex gives for x.
ClaimedIndex(x) ==
  LET v == ToNumber(x)
  IN  IF x \in {Undef, Null} \/ v = NaN \/ v = Num(0) THEN Whole(1)
      ELSE IF v = NegInf \/ (IsFiniteNum(v) /\ v.n < 2) THEN Whole(1)
      ELSE IF v = PosInf \/ (IsFiniteNum(v) /\ v.n > 6) THEN Whole(3)
      ELSE Num(2 * (v.n \div 2))

\* C8: the clamped index of every request value is 1, 2 or 3: 1 for an
\* absent, null, zero, NaN or non-numeric value and for a value below 1, 3
\* for a value above 3, the floor otherwise.
C8_ClampIsTotal ==
  (bodyRead /\ req.variant # "gen400" /\ loc.exerciseIndex # Undef) =>
    /\ loc.exerciseIndex \in {Whole(1), Whole(2), Whole(3)}
    /\ loc.exerciseIndex = ClaimedIndex(req.body.exerciseIndex)

\* C9: a request whose method is not POST is answered 405, with the header
\* Allow: POST from generateExercise, and for it the handler never reads the
\* body nor issues an image fetch, a store lookup or a completion call.
C9_MethodNotAllowed ==
  (req.method = "GET") =>
    /\ ~bodyRead
    /\ calls = [fetch |-> 0, lookup |-> 0, completion |-> 0]
    /\ pc \in {"entry", "done"}
    /\ Answered =>
         /\ resp.status = 405
         /\ req.variant \in GenVariants => <<"Allow", "POST">> \in resp.headers

C9_Witness ==
  /\ Answered
  /\ req.method = "GET"
  /\ req.variant = "genStore"
  /\ req.body # Null
  /\ resp.status = 405
  /\ resp.headers = {<<"Allow", "POST">>}

\* Absent, not a string, or empty or whitespace-only.
MissingText(v) == v.t # "string" \/ \A i \in 1..Len(v.s) : v.s[i] \in {" ", "\n"}

\* C10: a POST request to evaluateAnswer whose statement or imageUrl is
\* absent, not a string or blank, or that arrives while the credential is
\* unset, is answered 200 with the fallback record of the sanitized index as
\* soon as the handler runs, and no image fetch and no completion call is
\* issued for it.
C10_EarlyFallback ==
  (/\ req.variant \in EvalVariants
   /\ IsPost
   /\ pc # "entry"
   /\ \/ req.body = Null
      \/ MissingText(req.body.statement)
      \/ MissingText(req.body.imageUrl)
      \/ ~req.apiKey)
    => /\ Answered
       /\ resp.status = 200
       /\ resp.body = getFallbackEvaluation(RequestIndex)
       /\ calls.fetch = 0
       /\ calls.completion = 0

\* The image fetch of the request in hand has failed: a rejection, a
\* non-success status, or a failed read of the bytes.
ImageFailed ==
  \/ loc.imgResp.kind \in {"reject", "status404"}
  \/ loc.arrBuf.kind = "reject"

\* C11: in evaluateAnswer, once the image fetch has failed the request is
\* answered 200 with the fallback record of the sanitized index and no
\* completion call has been issued for it.
C11_ImageFailureFallsBack ==
  (req.variant \in EvalVariants /\ ImageFailed) =>
    /\ Answered
    /\ resp.status = 200
    /\ resp.body = getFallbackEvaluation(RequestIndex)
    /\ calls.completion = 0
    /\ "completion" \notin pending

\* A 404 for the image of a request with index 2.
C11_Witness ==
  /\ req.variant = "evalGenAI"
  /\ req.body # Null
  /\ req.body.exerciseIndex = Whole(2)
  /\ loc.imgResp.kind = "status404"
  /\ resp.body = getFallbackEvaluation(Whole(2))
  /\ calls.fetch = 1
  /\ calls.completion = 0

\* The completion output parses as it stands to an object with an allowed
\* result, a finite numeric score and a feedbackSummary that is not blank.
GoodEvalOutput(o) ==
  /\ o.kind = "text"
  /\ IsParsedObject(JSONParse(o.text))
  /\ LET f == JSONParse(o.text).f
     IN  /\ f.result \in {Str(<<"correct">>), Str(<<"partial">>),
                            Str(<<"incorrect">>)}
         /\ f.score.t = "number" /\ IsFiniteNum(f.score)
         /\ f.feedbackSummary.t = "string"
         /\ Trim(f.feedbackSummary.s) # <<>>

\* round(s) with a half rounded up, in halves, then clamped to [0,100].
RoundedClamped(score) ==
  LET r == 2 * ((score.n + 1) \div 2)
  IN  Num(IF r < 0 THEN 0 ELSE IF r > 200 THEN 200 ELSE r)

\* C12: in evaluateAnswer such an output is answered 200 with its result,
\* min(100, max(0, round(score))) and its trimmed feedbackSummary.
C12_GenuineRecord ==
  (Completed /\ req.variant \in EvalVariants /\ GoodEvalOutput(loc.out)) =>
    LET f == JSONParse(loc.out.text).f
    IN  /\ resp.status = 200
        /\ resp.body = [result |-> f.result,
                        score |-> RoundedClamped(f.score),
                        feedbackSummary |-> Str(Trim(f.feedbackSummary.s))]

\* The values an exercise index can be given as: every request value but
\* the absent one, and what sanitizeExerciseIndex makes of them.
IndexArguments ==
  (IndexValues \ {Undef}) \cup {sanitizeExerciseIndex(v) : v \in IndexValues}

EvaluationOf(v) ==
  IF v = Whole(1) THEN <<"correct", 100>>
  ELSE IF v = Whole(2) THEN <<"partial", 60>>
  ELSE <<"incorrect", 20>>

ExerciseTypeOf(v) ==
  IF v = Whole(1) THEN "basic_procedural"
  ELSE IF v = Whole(2) THEN "mixed_rules"
  ELSE "applied_word_problem"

\* The request in hand took a fallback path of evaluateAnswer after its
\* index was clamped: an early return, a failed image fetch, a completion
\* call that threw or gave no content.
EvalFellBack ==
  /\ Answered
  /\ req.variant \in EvalVariants
  /\ resp.status = 200
  /\ loc.exerciseIndex # Undef
  /\ loc.out.kind \in {"none", "throw", "null"}

\* C13: getFallbackEvaluation gives correct/100 for index 1, partial/60 for
\* index 2 and incorrect/20 for every other value; localFallback (of either
\* table) gives basic_procedural, mixed_rules and applied_word_problem; and
\* a fallback answer of evaluateAnswer is the record of the clamped index
\* whatever the rest of the request and the external results are.
C13_FallbackByIndexAlone ==
  /\ \A v \in IndexArguments :
       /\ getFallbackEvaluation(v).result = Str(<<EvaluationOf(v)[1]>>)
       /\ getFallbackEvaluation(v).score = Whole(EvaluationOf(v)[2])
       /\ localFallback(v).exerciseType = Str(<<ExerciseTypeOf(v)>>)
       /\ localFallback400(v).exerciseType = Str(<<ExerciseTypeOf(v)>>)
  /\ EvalFellBack =>
       /\ resp.body.result = Str(<<EvaluationOf(loc.exerciseIndex)[1]>>)
       /\ resp.body.score = Whole(EvaluationOf(loc.exerciseIndex)[2])

\* A request whose index "abc" is clamped to NaN and whose image fetch is
\* rejected gets the third record.
C13_Witness ==
  /\ EvalFellBack
  /\ req.body.exerciseIndex = Str(<<"a", "b", "c">>)
  /\ loc.exerciseIndex = NaN
  /\ loc.imgResp.kind = "reject"
  /\ resp.body.result = Str(<<"incorrect">>)
  /\ resp.body.score = Whole(20)

\* C14: in evaluateAnswer a valid result object with the score "85", wrapped
\* in a code fence or in commentary, is answered like the bare object with
\* the score 85: the genuine record with score 85.
C14_FencedRoundTrip ==
  (/\ Completed
   /\ req.variant \in EvalVariants
   /\ loc.out.kind = "text"
   /\ loc.out.text \in Wrapped(GoodEvalProps(Str(<<"8", "5">>))))
    => resp.body = [result |-> Str(<<"partial">>), score |-> Whole(85),
                    feedbackSummary |-> Str(<<"Bom raciocinio.">>)]

\* The exerciseIndex the request carries (none when the body is null).
GivenIndex == IF req.body = Null THEN Undef ELSE req.body.exerciseIndex

\* C15: the index-validating variant answers 400 without a completion call
\* to every POST whose exerciseIndex is not 1, 2 or 3, and issues the
\* completion call when it is.
C15_IndexValidated ==
  (req.variant = "gen400" /\ IsPost /\ pc # "entry") =>
    IF GivenIndex \in {Whole(1), Whole(2), Whole(3)}
      THEN calls.completion = 1
      ELSE /\ Answered
           /\ resp.status = 400
           /\ calls.completion = 0

\* The subtopic lookup of the request in hand has failed: the store gave an
\* error value, or the call rejected.
LookupFailed == loc.row.kind \in {"error", "reject"}

\* C16: in the store-backed variant a failed lookup is an absent context:
\* the completion call is issued with the labels of the request body, and
\* the failure by itself does not end the request with the fallback.
C16_LookupFailureIsAbsence ==
  (/\ req.variant = "genStore"
   /\ LookupFailed
   /\ ~PickThrows(SubtopicLabel(Null, req.body.subtopicName)))
    => /\ loc.ctx = Null
       /\ calls.completion = 1
       /\ loc.hint = pickExerciseType(SubtopicLabel(Null, req.body.subtopicName),
                                      DifficultyOrMedium(req.body.difficulty),
                                      loc.exerciseIndex)

\* What the store-backed variant answers to the request in hand and the
\* completion outcome o when the lookup resolves to no context.
AnswerWithoutContext(o) ==
  LET subtopicLabel == SubtopicLabel(Null, req.body.subtopicName)
  IN  IF PickThrows(subtopicLabel) THEN localFallback(Whole(1))
      ELSE RepairAnswer(o, localFallback(loc.exerciseIndex),
                        pickExerciseType(subtopicLabel,
                                         DifficultyOrMedium(req.body.difficulty),
                                         loc.exerciseIndex))

\* C17: in the store-backed variant a run with a resolved context record
\* is answered with the status and body of the run with the same request
\* body, the same completion output and no context.
C17_ContextOnlyInPrompt ==
  (/\ req.variant = "genStore"
   /\ Completed
   /\ Returned(loc.out)
   /\ loc.row.kind = "row")
    => /\ resp.status = 200
       /\ resp.body = AnswerWithoutContext(loc.out)

\* C18: in evaluateAnswer the completion call is issued only after the
\* image fetch of the request has succeeded and its bytes are read and
\* encoded; the image data passed to the call is the base64 encoding of
\* exactly those bytes; and the image fetch and the completion call are
\* never in flight together.
C18_FetchThenCompletion ==
  req.variant \in EvalVariants =>
    /\ Cardinality(pending) <= 1
    /\ (calls.completion > 0 \/ "completion" \in pending) =>
         /\ calls.fetch = 1
         /\ "fetch" \notin pending
         /\ loc.imgResp.kind = "ok"
         /\ loc.arrBuf.kind = "ok"
         /\ sent.data = Base64(loc.arrBuf.bytes)

\* The completion call in flight with the encoding of four fetched bytes.
C18_Witness ==
  /\ req.variant = "evalOpenAI"
  /\ pending = {"completion"}
  /\ calls.completion = 1
  /\ loc.arrBuf.bytes = <<255, 216, 255, 224>>
  /\ sent.data = <<"/", "9", "j", "/", "4", "A", "=", "=">>

AtMostOnceEach ==
  calls.fetch <= 1 /\ calls.lookup <= 1 /\ calls.completion <= 1

ProbeRequests ==
  {[variant |-> v, method |-> "POST", apiKey |-> TRUE,
    body |-> [NoBodyField EXCEPT !.statement = Str(<<"Calcula f'(x).">>),
                                 !.imageUrl = Str(<<"https://cdn/a.jpg">>),
                                 !.exerciseIndex = Whole(2)]] :
     v \in EvalVariants}
  \cup
  {[variant |-> v, method |-> "POST", apiKey |-> TRUE,
    body |-> [NoBodyField EXCEPT !.subtopicName = Str(<<"Modelacao">>),
                                 !.difficulty = Str(<<"hard">>),
                                 !.exerciseIndex = Whole(3)]] :
     v \in GenVariants}
  \cup
  {[variant |-> "evalGemini", method |-> "POST", apiKey |-> FALSE,
    body |-> [NoBodyField EXCEPT !.exerciseIndex = Whole(3)]],
   [variant |-> "genStore", method |-> "GET", apiKey |-> TRUE, body |-> Null]}

ReceiveProbe ==
  /\ pc = "idle"
  /\ \E r \in ProbeRequests : req' = r
  /\ pc' = "entry"
  /\ UNCHANGED <<loc, calls, sent, bodyRead, resp, pending, parked>>

\* The running invocation as a record, and its restoration from one.
Running ==
  [req |-> req, pc |-> pc, loc |-> loc, calls |-> calls, sent |-> sent,
   bodyRead |-> bodyRead, resp |-> resp, pending |-> pending]

Resume(inv) ==
  /\ req' = inv.req
  /\ pc' = inv.pc
  /\ loc' = inv.loc
  /\ calls' = inv.calls
  /\ sent' = inv.sent
  /\ bodyRead' = inv.bodyRead
  /\ resp' = inv.resp
  /\ pending' = inv.pending

AtAwait == pc \in {"fetch", "read", "lookup", "complete"}

\* Suspend with the locals kept in one place for both invocations.
SuspendSharingLocals ==
  /\ AtAwait
  /\ parked' = Running
  /\ req' = parked.req
  /\ pc' = parked.pc
  /\ calls' = parked.calls
  /\ sent' = parked.sent
  /\ bodyRead' = parked.bodyRead
  /\ resp' = parked.resp
  /\ pending' = parked.pending
  /\ UNCHANGED loc

\* The running invocation waits at an await and the other one, suspended
\* earlier or not yet started, takes its place.
Suspend ==
  /\ AtAwait
  /\ parked' = Running
  /\ Resume(parked)

\* The running invocation has answered and returned; the other one is next.
Return ==
  /\ pc = "done"
  /\ parked' = IdleInvocation
  /\ Resume(parked)

ConcurrentNext ==
  \/ ReceiveProbe
  \/ EvalEntry
  \/ FetchImage
  \/ ReadBytes
  \/ GeminiCompletion
  \/ OpenAICompletion
  \/ GenAICompletion
  \/ StoreEntry
  \/ StoreLookup
  \/ HintEntry
  \/ PickEntry
  \/ RepairCompletion
  \/ Entry400
  \/ Completion400
  \/ Suspend
  \/ Return

ConcurrentSpec == Init /\ [][ConcurrentNext]_vars

\* What a request r gets when it is the only one handled, as a function of
\* r and of the external results l its handler saw: the image response
\* l.imgResp, the bytes l.arrBuf, the store row l.row and the completion
\* outcome l.out.
Answer(status, headers, body) ==
  [status |-> status, headers |-> headers, body |-> body]

ServerError == Answer(500, {}, [error |-> "Internal Server Error"])

EvaluatedAlone(r, l) ==
  IF r.method # "POST" THEN Answer(405, {}, MethodNotAllowed)
  ELSE IF r.body = Null THEN ServerError
  ELSE LET exerciseIndex == sanitizeExerciseIndex(r.body.exerciseIndex)
           fallback == Answer(200, {}, getFallbackEvaluation(exerciseIndex))
       IN  IF \/ InvalidText(r.body.statement)
              \/ InvalidText(r.body.imageUrl)
              \/ ~r.apiKey
             THEN fallback
           ELSE IF r.body.userAnswer = Null THEN ServerError
           ELSE IF l.imgResp.kind # "ok" \/ l.arrBuf.kind # "ok" THEN fallback
           ELSE IF r.variant = "evalGemini" /\ l.arrBuf.bytes = <<>> THEN fallback
           ELSE Answer(200, {},
                  CASE r.variant = "evalGemini" -> GeminiAnswer(l.out, exerciseIndex)
                    [] r.variant = "evalOpenAI" -> OpenAIAnswer(l.out, exerciseIndex)
                    [] OTHER -> GenAIAnswer(l.out, exerciseIndex))

GeneratedAlone(r, l) ==
  IF r.method # "POST" THEN Answer(405, AllowPost, MethodNotAllowedGen)
  ELSE IF r.body = Null
    THEN Answer(200, {}, IF r.variant = "gen400" THEN localFallback400(Whole(1))
                         ELSE localFallback(Whole(1)))
  ELSE IF r.variant = "gen400"
    THEN IF IndexRejected(r.body.exerciseIndex) THEN Answer(400, {}, BadIndex)
         ELSE Answer(200, {}, Answer400(l.out, r.body.exerciseIndex))
  ELSE LET safeIndex == sanitizeExerciseIndex(r.body.exerciseIndex)
           first == Answer(200, {}, localFallback(Whole(1)))
           label == SubtopicLabel(fetchSubtopicContext(l.row), r.body.subtopicName)
       IN  CASE r.variant = "genStore" ->
                  IF l.row.kind = "reject" \/ PickThrows(label) THEN first
                  ELSE Answer(200, {},
                         RepairAnswer(l.out, localFallback(safeIndex),
                           pickExerciseType(label,
                                            DifficultyOrMedium(r.body.difficulty),
                                            safeIndex)))
             [] r.variant = "genHint" ->
                  IF TrimThrows(r.body.subtopicName) THEN first
                  ELSE Answer(200, {},
                         RepairAnswer(l.out, localFallback(safeIndex),
                           chooseExerciseTypeHint(safeIndex,
                             IF r.body.difficulty \in {Str(<<"easy">>), Str(<<"hard">>)}
                               THEN r.body.difficulty ELSE Str(<<"medium">>))))
             [] OTHER ->
                  IF TrimThrows(r.body.subtopicName) THEN first
                  ELSE Answer(200, {},
                         RepairAnswer(l.out, localFallback(safeIndex),
                           pickExerciseTypeSimple(TrimOrDefault(r.body.subtopicName),
                             DifficultyOrMedium(r.body.difficulty), safeIndex)))

HandledAlone(r, l) ==
  IF r.variant \in EvalVariants THEN EvaluatedAlone(r, l) ELSE GeneratedAlone(r, l)

\* C20: with the awaits of two requests interleaved in any order, and after
\* any earlier requests, every request is answered as it is when handled
\* alone with the same external results; and an invocation waiting at an
\* await keeps the external operations it has issued, neither more nor
\* fewer, while the other one runs.
C20_RequestsIndependent ==
  /\ Answered => resp = HandledAlone(req, loc)
  /\ parked.pc \in {"idle", "fetch", "read", "lookup", "complete"}
  /\ parked.pc = "idle" => parked = IdleInvocation
  /\ parked.pc \in {"fetch", "read"} =>
       parked.pending = {"fetch"} /\ parked.loc.out.kind = "none"
  /\ parked.pc = "lookup" => parked.pending = {"lookup"}
  /\ parked.pc = "complete" => parked.pending = {"completion"}

\* An evaluation answered with its genuine record while a generation waits
\* for its completion call.
C20_Witness ==
  /\ Answered
  /\ req.variant = "evalGemini"
  /\ req.apiKey
  /\ GoodEvalOutput(loc.out)
  /\ resp.body.score = Whole(85)
  /\ parked.pc = "complete"
  /\ parked.req.variant = "genStore"
  /\ parked.loc.row.kind = "row"

\* --------------------------------------------------------------- progress

\* A handler's run from one await to the next is taken once the awaited
\* operation has settled, and every awaited operation settles: the steps
\* of the handlers are weakly fair.  The arrival of a request is not.
HandlerStep ==
  \/ EvalEntry
  \/ FetchImage
  \/ ReadBytes
  \/ GeminiCompletion
  \/ OpenAICompletion
  \/ GenAICompletion
  \/ StoreEntry
  \/ StoreLookup
  \/ HintEntry
  \/ PickEntry
  \/ RepairCompletion
  \/ Entry400
  \/ Completion400

\* The requests of the fair runs: for every handler a request of another
\* method, the body null, and bodies that take each of its paths (a missing
\* field, a null userAnswer, a subtopicName that is no string, an index of
\* each kind).
SampleRequests ==
  ProbeRequests
  \cup {[variant |-> v, method |-> m, apiKey |-> TRUE, body |-> Null] :
          v \in Variants, m \in {"GET", "POST"}}
  \cup {[variant |-> v, method |-> "POST", apiKey |-> TRUE,
          body |-> [NoBodyField EXCEPT !.statement = Str(<<"Calcula f'(x).">>),
                                       !.imageUrl = im, !.userAnswer = ua,
                                       !.exerciseIndex = Str(<<"a", "b", "c">>)]] :
          v \in EvalVariants, im \in {Undef, Str(<<"https://cdn/a.jpg">>)},
          ua \in {Null, Str(<<" ", "x = 2">>)}}
  \cup {[variant |-> v, method |-> "POST", apiKey |-> TRUE,
          body |-> [NoBodyField EXCEPT !.subtopicName = su,
                                       !.exerciseIndex = ix]] :
          v \in GenVariants, su \in {Undef, Whole(7)},
          ix \in {Undef, Whole(1), Num(3), Whole(4)}}

ReceiveSample ==
  /\ pc = "idle"
  /\ \E r \in SampleRequests : req' = r
  /\ pc' = "entry"
  /\ UNCHANGED <<loc, calls, sent, bodyRead, resp, pending, parked>>

FairNext == ReceiveSample \/ HandlerStep

FairSpec == Init /\ [][FairNext]_vars /\ WF_vars(HandlerStep)

Responded == resp.status # 0

\* The handler itself has sent the response: a 500 is the framework's
\* answer to an exception that escaped the handler.
HandlerSent == resp.status \notin {0, 500}

\* C21: the handler of a request that has arrived eventually sends a
\* response; once a response is sent it is never replaced by another one,
\* and no external operation is issued or left in flight after it.
C21_AnsweredExactlyOnce ==
  /\ (pc = "entry") ~> HandlerSent
  /\ [](Responded => pending = {})
  /\ [][Responded => (resp' = resp /\ calls' = calls /\ pending' = pending)]_vars


\* ------------------------------------------------- coerced and blank fields

\* The value JSON.parse gives the handler of the variant: the Gemini
\* handler parses the cleaned text, the other two the text as it stands.
ParsedBy(variant, o) ==
  IF variant = "evalGemini" THEN JSONParse(CleanJsonText(o.text))
  ELSE JSONParse(o.text)

\* A string that spells a number (the empty and the blank string do not).
IsNumericString(v) ==
  v.t = "string" /\ Trim(v.s) # <<>> /\ IsFiniteNum(StringToNumber(v.s))

\* The score is present but neither a number nor a numeric string, or the
\* feedbackSummary is an empty or whitespace-only string.
CoercibleOrBlank(f) ==
  \/ f.score # Undef /\ f.score.t # "number" /\ ~IsNumericString(f.score)
  \/ f.feedbackSummary.t = "string" /\ Trim(f.feedbackSummary.s) = <<>>

\* C22: in evaluateAnswer, a parsed completion object whose score is present
\* but neither a number nor a numeric string (null, a boolean, an empty
\* string, an array), or whose feedbackSummary is empty or whitespace-only,
\* is answered with the fallback record of the sanitized index, never with
\* a record built from a coerced score or a blank feedback.
C22_NoCoercedRecord ==
  (/\ Completed
   /\ req.variant \in EvalVariants
   /\ loc.out.kind = "text"
   /\ IsParsedObject(ParsedBy(req.variant, loc.out))
   /\ CoercibleOrBlank(ParsedBy(req.variant, loc.out).f)) =>
    /\ resp.status = 200
    /\ resp.body = getFallbackEvaluation(RequestIndex)


\* ------------------------------------------------------ the image's type

\* An image part went out with the completion call of the request in hand.
ImageSent == req.variant \in EvalVariants /\ sent # NoImage

\* The header names an image type.
NamesImageType(header) ==
  header.t = "string" /\ header.s # <<>> /\ Head(header.s) = "image/"

\* The header without its ";" parameters.
WithoutParameters(header) ==
  IF \E i \in 1..Len(header.s) : header.s[i] = ";"
    THEN SubSeq(header.s, 1,
                (CHOOSE i \in 1..Len(header.s) :
                   /\ header.s[i] = ";"
                   /\ \A j \in 1..(i - 1) : header.s[j] # ";") - 1)
    ELSE header.s

\* The type the claim gives the image for the content-type header.
TypeOfResponse(header) ==
  IF NamesImageType(header) THEN WithoutParameters(header) ELSE DefaultMime

\* C23 as stated: in every evaluateAnswer variant the MIME type attached to
\* the image sent to the completion service is the content-type of the image
\* fetch response without its ";" parameters when the header names an image
\* type, and image/jpeg when the header is absent or names another type.
C23_MimeFromResponse ==
  ImageSent => sent.mimeType = TypeOfResponse(loc.imgResp.header)

\* C23: that holds in the two Gemini variants; in the OpenAI variant the
\* image is labelled image/jpeg whatever the header is.
C23_MimeByVariant ==
  ImageSent =>
    sent.mimeType = IF req.variant = "evalOpenAI" THEN DefaultMime
                    ELSE TypeOfResponse(loc.imgResp.header)

\* A webp image whose header carries a parameter went out as image/webp from
\* the second Gemini variant.
C23_Witness ==
  /\ ImageSent
  /\ req.variant = "evalGenAI"
  /\ loc.imgResp.header = Str(<<"image/", "webp", ";", " charset=binary">>)
  /\ sent.mimeType = <<"image/", "webp">>
  /\ sent.data # <<>>


\* -------------------------------------------------- clamping a second time

\* C24: sanitizeExerciseIndex is idempotent: clamping the clamped index of a
\* request again gives the same value, whatever the body carried as index
\* (absent, null, NaN, an integer, a fraction, a numeric or a non-numeric
\* string).
C24_ClampIdempotent ==
  (bodyRead /\ req.variant # "gen400" /\ loc.exerciseIndex # Undef) =>
    sanitizeExerciseIndex(loc.exerciseIndex) = loc.exerciseIndex

====
